---- MODULE Spec2Model ----
(***************************************************************************)
(* Model of the variant logic of the description generator:                *)
(*   - ShopifyService.updateVariantsBulletPoint  (the description patcher) *)
(*   - VariantParser.detectVariantChanges        (the snapshot comparator) *)
(*   - VariantParser.formatVariantsForDescription (the summary formatter)  *)
(*   - GeminiService.addVariantsBulletPoint and                            *)
(*     ShopifyService.updateVariantsInDescription (their callers)          *)
(*   - the server's routes, the products/update webhook and the            *)
(*     processing queue of DescriptionGenerator  (the update flow)         *)
(* Strings are sequences of tokens.  A token is one HTML tag, the bold     *)
(* label, one whitespace character, or one run of plain text; the regular  *)
(* expressions of the source are evaluated token by token.                 *)
(***************************************************************************)
EXTENDS Integers, Sequences, FiniteSets, TLC

VARIABLES htmlDescription, formattedVariants, original, outcome,
          oldProduct, newProduct, changeResult, storeUpdates,
          store, processingQueue, calls, webhooks

vars == <<htmlDescription, formattedVariants, original, outcome,
          oldProduct, newProduct, changeResult, storeUpdates,
          store, processingQueue, calls, webhooks>>

patchVars == <<htmlDescription, formattedVariants, original, outcome>>

compareVars == <<oldProduct, newProduct, changeResult>>

flowVars == <<store, processingQueue, calls, webhooks>>

(***************************************************************************)
(* Bounds of the model.                                                    *)
(***************************************************************************)
\* list items (segments) between the list tags of an initial document
MaxItems == 3

\* variants of a product snapshot
MaxVariants == 2

\* option definitions of a product snapshot
MaxOptions == 2

\* calls of shopify.product.update followed in one run
MaxUpdates == 2

\* requests the server works on at the same time
MaxCalls == 2

\* products/update webhooks the store has sent and the server not yet taken
MaxPending == 1

(***************************************************************************)
(* Tokens.                                                                 *)
(***************************************************************************)
LI == "<li>"

ELI == "</li>"

UL == "<ul>"

EUL == "</ul>"

OL == "<ol>"

EOL == "</ol>"

LBL == "<strong>Available Variants:</strong>"

NL == "\n"

SP == " "

\* the two characters "$1" inside a text (as in the price "$10")
DOLLAR1 == "$1"

\* \s of the regular expressions
IsWs(t) == t \in {SP, NL}

\* . of the regular expressions (no s flag: a line break is not matched)
IsDot(t) == t # NL

(***************************************************************************)
(* JavaScript values: null/undefined, a number, or a string (its tokens).  *)
(***************************************************************************)
Str(s) == [t |-> "str", v |-> s]

NullVal == [t |-> "null", v |-> <<>>]

Num(n) == [t |-> "num", v |-> <<n>>]

\* !x is false
Truthy(x) ==
  CASE x.t = "null" -> FALSE
    [] x.t = "num" -> x.v # <<"0">>
    [] OTHER -> x.v # <<>>

\* s.trim() === '' for a string s
TrimIsEmpty(s) == \A i \in 1..Len(s) : IsWs(s[i])

\* s.includes(t) for a token t
Includes(s, t) == \E i \in 1..Len(s) : s[i] = t

RECURSIVE Flatten(_)
Flatten(ss) == IF ss = <<>> THEN <<>> ELSE Head(ss) \o Flatten(Tail(ss))

(***************************************************************************)
(* String.prototype.replace with a string replacement.                     *)
(***************************************************************************)
\* GetSubstitution: $1 stands for capture 1 when the pattern has one, and is
\* kept literally when it has none; every other token of the model is literal
GetSubstitution(template, captures) ==
  Flatten([i \in 1..Len(template) |->
            IF template[i] = DOLLAR1 /\ Len(captures) >= 1
              THEN captures[1] ELSE <<template[i]>>])

RECURSIVE SkipWs(_, _)
\* \s* from position j: the first position that is not whitespace
SkipWs(d, j) == IF j <= Len(d) /\ IsWs(d[j]) THEN SkipWs(d, j + 1) ELSE j

RECURSIVE LazyDotGreedy(_, _)
\* a greedy .* instead of .*? : the last </li> of the line
LazyDotGreedy(d, k) ==
  IF k > Len(d) \/ ~IsDot(d[k]) THEN 0
  ELSE LET later == LazyDotGreedy(d, k + 1)
       IN  IF later # 0 THEN later ELSE IF d[k] = ELI THEN k ELSE 0

RECURSIVE LazyDot(_, _)
\* .*?<\/li> from position k: the position of the first </li>, 0 when a line
\* break or the end of the text comes first
LazyDot(d, k) ==
  IF k > Len(d) THEN 0
  ELSE IF d[k] = ELI THEN k
  ELSE IF IsDot(d[k]) THEN LazyDot(d, k + 1)
  ELSE 0

\* the pattern without \s* between <li> and the label
MatchEndNoLeadingWs(d, i, trailing) ==
  IF i > Len(d) \/ d[i] # LI THEN 0
  ELSE LET j == i + 1
       IN  IF j > Len(d) \/ d[j] # LBL THEN 0
           ELSE LET k == LazyDot(d, j + 1)
                IN  IF k = 0 THEN 0
                    ELSE IF trailing THEN SkipWs(d, k + 1) - 1 ELSE k

\* the removal pattern without its final \s*
MatchEndNoTrailingWs(d, i, trailing) ==
  IF i > Len(d) \/ d[i] # LI THEN 0
  ELSE LET j == SkipWs(d, i + 1)
       IN  IF j > Len(d) \/ d[j] # LBL THEN 0
           ELSE LazyDot(d, j + 1)

\* /<li>\s*<strong>Available Variants:<\/strong>.*?<\/li>/ at position i: the
\* position of the last token of the match, 0 for no match; with trailing,
\* the pattern ends in \s*
MatchEnd(d, i, trailing) ==
  IF i > Len(d) \/ d[i] # LI THEN 0
  ELSE LET j == SkipWs(d, i + 1)
       IN  IF j > Len(d) \/ d[j] # LBL THEN 0
           ELSE LET k == LazyDot(d, j + 1)
                IN  IF k = 0 THEN 0
                    ELSE IF trailing THEN SkipWs(d, k + 1) - 1 ELSE k

RECURSIVE ReplaceAllFrom(_, _, _, _)
\* the g flag: every match from the left, the scan resuming after a match
ReplaceAllFrom(d, i, trailing, replacement) ==
  IF i > Len(d) THEN <<>>
  ELSE LET e == MatchEnd(d, i, trailing)
       IN  IF e # 0
             THEN GetSubstitution(replacement, <<>>)
                    \o ReplaceAllFrom(d, e + 1, trailing, replacement)
             ELSE <<d[i]>> \o ReplaceAllFrom(d, i + 1, trailing, replacement)

\* the first position of token t in d, 0 when absent
FirstIndexOf(d, t) ==
  IF Includes(d, t)
    THEN CHOOSE i \in 1..Len(d) : d[i] = t /\ \A j \in 1..(i - 1) : d[j] # t
    ELSE 0

\* the last position of token t in d, 0 when absent
LastIndexOf(d, t) ==
  IF Includes(d, t)
    THEN CHOOSE i \in 1..Len(d) : d[i] = t /\ \A j \in (i + 1)..Len(d) : d[j] # t
    ELSE 0

\* /(<ul>)/ replaced at the last <ul> instead of the first
ReplaceFirstUlAtLast(d, replacement) ==
  LET k == LastIndexOf(d, UL)
  IN  IF k = 0 THEN d
      ELSE SubSeq(d, 1, k - 1) \o GetSubstitution(replacement, <<<<UL>>>>)
             \o SubSeq(d, k + 1, Len(d))

\* d.replace(/(<ul>)/, replacement): the first <ul> only (no g flag)
ReplaceFirstUl(d, replacement) ==
  LET k == FirstIndexOf(d, UL)
  IN  IF k = 0 THEN d
      ELSE SubSeq(d, 1, k - 1) \o GetSubstitution(replacement, <<<<UL>>>>)
             \o SubSeq(d, k + 1, Len(d))

(***************************************************************************)
(* ShopifyService.updateVariantsBulletPoint                                *)
(***************************************************************************)
\* `<li>\n<strong>Available Variants:</strong> ${formattedVariants}</li>`
newVariantsBullet(fv) == <<LI, NL, LBL, SP>> \o fv \o <<ELI>>

\* !formattedVariants || formattedVariants === 'Standard'
NoMeaningfulShortCircuit(fv) == ~Truthy(fv) \/ fv = Str(<<"Standard">>)

\* the try block without the test for an existing bullet: the new bullet is
\* always inserted after the first <ul>, as addVariantsBulletPoint does
TryBlockAlwaysInserts(html, fv) ==
  IF NoMeaningfulShortCircuit(fv) \/ (fv.t = "str" /\ TrimIsEmpty(fv.v))
    THEN IF html.t # "str" THEN [throws |-> TRUE, value |-> NullVal]
         ELSE [throws |-> FALSE,
               value |-> Str(ReplaceAllFrom(html.v, 1, TRUE, <<>>))]
  ELSE IF fv.t # "str" \/ html.t # "str"
    THEN [throws |-> TRUE, value |-> NullVal]
  ELSE [throws |-> FALSE,
        value |-> Str(ReplaceFirstUl(html.v,
                        <<DOLLAR1, NL, SP, SP>> \o newVariantsBullet(fv.v)))]

\* the try block: [throws, value]
TryBlock(html, fv) ==
  IF NoMeaningfulShortCircuit(fv) \/ (fv.t = "str" /\ TrimIsEmpty(fv.v))
    THEN \* htmlDescription.replace(/...\s*/g, '')
         IF html.t # "str" THEN [throws |-> TRUE, value |-> NullVal]
         ELSE [throws |-> FALSE,
               value |-> Str(ReplaceAllFrom(html.v, 1, TRUE, <<>>))]
  ELSE IF fv.t # "str"
    THEN \* formattedVariants.trim is not a function
         [throws |-> TRUE, value |-> NullVal]
  ELSE IF html.t # "str"
    THEN \* htmlDescription.includes of null, or not a function
         [throws |-> TRUE, value |-> NullVal]
  ELSE IF Includes(html.v, LBL)
    THEN [throws |-> FALSE,
          value |-> Str(ReplaceAllFrom(html.v, 1, FALSE, newVariantsBullet(fv.v)))]
  ELSE [throws |-> FALSE,
        value |-> Str(ReplaceFirstUl(html.v,
                        <<DOLLAR1, NL, SP, SP>> \o newVariantsBullet(fv.v)))]

\* the function without its catch block: the exception reaches the caller
updateVariantsBulletPointNoCatch(html, fv) ==
  LET r == TryBlock(html, fv)
  IN  [raised |-> r.throws, value |-> r.value]

\* try { ... } catch (error) { return htmlDescription; }
updateVariantsBulletPoint(html, fv) ==
  LET r == TryBlock(html, fv)
  IN  IF r.throws THEN [raised |-> FALSE, value |-> html]
      ELSE [raised |-> FALSE, value |-> r.value]

(***************************************************************************)
(* Documents: the body_html a product can hold.  A description is          *)
(* generator-authored HTML: a list whose items are plain bullets and       *)
(* "Available Variants" bullets in the forms found in stored descriptions. *)
(***************************************************************************)
\* <li>X</li>
PlainItem == <<LI, "X", ELI>>

\* the indentation between two items
Gap == <<NL, SP, SP>>

\* the bullet as the prompt asks the generator to write it
BulletCompact == <<LI, LBL, SP, "Size: A", ELI>>

\* the bullet as addVariantsBulletPoint writes it and the store returns it
BulletStored == <<LI, NL, LBL, SP, "Size: B", ELI>>

\* a pretty-printed bullet: a line break before the closing tag
BulletMultiLine == <<LI, LBL, SP, "Size: A", NL, ELI>>

Segments == {PlainItem, Gap, BulletCompact, BulletStored, BulletMultiLine}

ItemLists == UNION {[1..n -> Segments] : n \in 0..MaxItems}

\* one unordered list, an ordered list only, or two unordered lists
Wrap(kind, items) ==
  CASE kind = "ul" -> <<"<h2>", UL>> \o items \o <<EUL>>
    [] kind = "ol" -> <<"<h2>", OL>> \o items \o <<EOL>>
    [] OTHER -> <<UL>> \o items \o <<EUL, UL>> \o PlainItem \o <<EUL>>

Documents ==
  {Str(Wrap(kind, Flatten(items))) : kind \in {"ul", "ol", "two"}, items \in ItemLists}
    \cup {NullVal}

\* the summaries handed to the patcher: empty, blank, the sentinel, two
\* variant summaries, a summary with a price ("$10"), null and a number
Summaries ==
  {Str(<<>>), Str(<<SP, NL>>), Str(<<"Standard">>), Str(<<"Size: B">>),
   Str(<<"Size: C">>), Str(<<"Amount: ", DOLLAR1, "0">>), NullVal, Num("5")}

(***************************************************************************)
(* Product snapshots.  A missing field is undefined, null is null; both    *)
(* are kept apart from the empty string.  An array that may be missing is  *)
(* [def, items].                                                           *)
(***************************************************************************)
UNDEF == "#undefined"

NULL == "#null"

Arr(s) == [def |-> TRUE, items |-> s]

NoArr == [def |-> FALSE, items |-> <<>>]

\* x || []
OrEmpty(a) == IF a.def THEN a.items ELSE <<>>

Variant(title, o1, o2, o3) ==
  [nul |-> FALSE, title |-> title, option1 |-> o1, option2 |-> o2, option3 |-> o3]

\* a null element of the variants array
NullVariant ==
  [nul |-> TRUE, title |-> UNDEF, option1 |-> UNDEF, option2 |-> UNDEF,
   option3 |-> UNDEF]

Option(name, values) == [nul |-> FALSE, name |-> name, values |-> values]

\* a null element of the options array
NullOption == [nul |-> TRUE, name |-> UNDEF, values |-> NoArr]

Product(variants, options) ==
  [nul |-> FALSE, variants |-> variants, options |-> options]

\* a null or undefined snapshot
NullProduct == [nul |-> TRUE, variants |-> NoArr, options |-> NoArr]

(***************************************************************************)
(* VariantParser.detectVariantChanges                                      *)
(***************************************************************************)
\* the fields a result may carry; the details text is left out
NoChange ==
  [hasChanges |-> FALSE, changeType |-> UNDEF, oldCount |-> -1, newCount |-> -1,
   oldValue |-> UNDEF, newValue |-> UNDEF, optionName |-> UNDEF,
   variantIndex |-> -1, oldVariant |-> UNDEF, newVariant |-> UNDEF]

Change(type) == [NoChange EXCEPT !.hasChanges = TRUE, !.changeType = type]

CountChange(type, old, new) ==
  [Change(type) EXCEPT !.oldCount = old, !.newCount = new]

Done(r) == [throws |-> FALSE, hit |-> TRUE, result |-> r]

Thrown == [throws |-> TRUE, hit |-> FALSE, result |-> NoChange]

NoHit == [throws |-> FALSE, hit |-> FALSE, result |-> NoChange]

\* the value lists compared as objects (oldValues !== newValues): two lists
\* are never the same object
FirstValueDiffByIdentity(oldValues, newValues) ==
  IF Len(oldValues) > 0 THEN 1 ELSE 0

\* the value loop run from the end of the lists: the last position where
\* they differ
FirstValueDiffFromEnd(oldValues, newValues) ==
  IF \E j \in 1..Len(oldValues) : oldValues[j] # newValues[j]
    THEN CHOOSE j \in 1..Len(oldValues) :
           /\ oldValues[j] # newValues[j]
           /\ \A m \in (j + 1)..Len(oldValues) : oldValues[m] = newValues[m]
    ELSE 0

\* the first position where two value lists of equal length differ, 0 if none
FirstValueDiff(oldValues, newValues) ==
  IF \E j \in 1..Len(oldValues) : oldValues[j] # newValues[j]
    THEN CHOOSE j \in 1..Len(oldValues) :
           /\ oldValues[j] # newValues[j]
           /\ \A m \in 1..(j - 1) : oldValues[m] = newValues[m]
    ELSE 0

RECURSIVE CheckOptionsValuesFirst(_, _, _)
\* the options loop with the value lists of a pair checked before its names
CheckOptionsValuesFirst(oldOptions, newOptions, i) ==
  IF i > Len(oldOptions) THEN NoHit
  ELSE LET oldOption == oldOptions[i]
           newOption == newOptions[i]
       IN  IF oldOption.nul \/ newOption.nul THEN Thrown
           ELSE LET oldValues == OrEmpty(oldOption.values)
                    newValues == OrEmpty(newOption.values)
                    j == FirstValueDiff(oldValues, newValues)
                IN  IF Len(oldValues) # Len(newValues)
                      THEN Done([CountChange("option_values_count",
                                             Len(oldValues), Len(newValues))
                                   EXCEPT !.optionName = oldOption.name])
                    ELSE IF j # 0
                      THEN Done([Change("option_value") EXCEPT
                                   !.optionName = oldOption.name,
                                   !.oldValue = oldValues[j],
                                   !.newValue = newValues[j]])
                    ELSE IF oldOption.name # newOption.name
                      THEN Done([Change("option_name") EXCEPT
                                   !.oldValue = oldOption.name,
                                   !.newValue = newOption.name])
                    ELSE CheckOptionsValuesFirst(oldOptions, newOptions, i + 1)

RECURSIVE CheckOptions(_, _, _)
\* for (let i = 0; i < oldOptions.length; i++): option names and values
CheckOptions(oldOptions, newOptions, i) ==
  IF i > Len(oldOptions) THEN NoHit
  ELSE LET oldOption == oldOptions[i]
           newOption == newOptions[i]
       IN  IF oldOption.nul \/ newOption.nul THEN Thrown
           ELSE IF oldOption.name # newOption.name
             THEN Done([Change("option_name") EXCEPT
                          !.oldValue = oldOption.name, !.newValue = newOption.name])
           ELSE LET oldValues == OrEmpty(oldOption.values)
                    newValues == OrEmpty(newOption.values)
                    j == FirstValueDiff(oldValues, newValues)
                IN  IF Len(oldValues) # Len(newValues)
                      THEN Done([CountChange("option_values_count",
                                             Len(oldValues), Len(newValues))
                                   EXCEPT !.optionName = oldOption.name])
                    ELSE IF j # 0
                      THEN Done([Change("option_value") EXCEPT
                                   !.optionName = oldOption.name,
                                   !.oldValue = oldValues[j],
                                   !.newValue = newValues[j]])
                    ELSE CheckOptions(oldOptions, newOptions, i + 1)

RECURSIVE CheckVariantsTitleFirst(_, _, _)
\* the variants loop with the title of a pair checked before its slots
CheckVariantsTitleFirst(oldVariants, newVariants, i) ==
  IF i > Len(oldVariants) THEN NoHit
  ELSE LET oldVariant == oldVariants[i]
           newVariant == newVariants[i]
       IN  IF oldVariant.nul \/ newVariant.nul THEN Thrown
           ELSE IF oldVariant.title # newVariant.title
             THEN Done([Change("variant_title") EXCEPT
                          !.variantIndex = i - 1,
                          !.oldValue = oldVariant.title,
                          !.newValue = newVariant.title])
           ELSE IF \/ oldVariant.option1 # newVariant.option1
                   \/ oldVariant.option2 # newVariant.option2
                   \/ oldVariant.option3 # newVariant.option3
             THEN Done([Change("variant_options") EXCEPT
                          !.variantIndex = i - 1,
                          !.oldVariant = oldVariant.title,
                          !.newVariant = newVariant.title])
           ELSE CheckVariantsTitleFirst(oldVariants, newVariants, i + 1)

RECURSIVE CheckVariantsSkipNullNew(_, _, _)
\* the variants loop passing over a position whose new variant is null
CheckVariantsSkipNullNew(oldVariants, newVariants, i) ==
  IF i > Len(oldVariants) THEN NoHit
  ELSE LET oldVariant == oldVariants[i]
           newVariant == newVariants[i]
       IN  IF newVariant.nul
             THEN CheckVariantsSkipNullNew(oldVariants, newVariants, i + 1)
           ELSE IF oldVariant.nul THEN Thrown
           ELSE IF \/ oldVariant.option1 # newVariant.option1
                   \/ oldVariant.option2 # newVariant.option2
                   \/ oldVariant.option3 # newVariant.option3
             THEN Done([Change("variant_options") EXCEPT
                          !.variantIndex = i - 1,
                          !.oldVariant = oldVariant.title,
                          !.newVariant = newVariant.title])
           ELSE IF oldVariant.title # newVariant.title
             THEN Done([Change("variant_title") EXCEPT
                          !.variantIndex = i - 1,
                          !.oldValue = oldVariant.title,
                          !.newValue = newVariant.title])
           ELSE CheckVariantsSkipNullNew(oldVariants, newVariants, i + 1)

RECURSIVE CheckVariantsSlotsOnly(_, _, _)
\* the variants loop without its title check
CheckVariantsSlotsOnly(oldVariants, newVariants, i) ==
  IF i > Len(oldVariants) THEN NoHit
  ELSE LET oldVariant == oldVariants[i]
           newVariant == newVariants[i]
       IN  IF oldVariant.nul \/ newVariant.nul THEN Thrown
           ELSE IF \/ oldVariant.option1 # newVariant.option1
                   \/ oldVariant.option2 # newVariant.option2
                   \/ oldVariant.option3 # newVariant.option3
             THEN Done([Change("variant_options") EXCEPT
                          !.variantIndex = i - 1,
                          !.oldVariant = oldVariant.title,
                          !.newVariant = newVariant.title])
           ELSE CheckVariantsSlotsOnly(oldVariants, newVariants, i + 1)

RECURSIVE CheckVariants(_, _, _)
\* for (let i = 0; i < oldVariants.length; i++): slots, then title
CheckVariants(oldVariants, newVariants, i) ==
  IF i > Len(oldVariants) THEN NoHit
  ELSE LET oldVariant == oldVariants[i]
           newVariant == newVariants[i]
       IN  IF oldVariant.nul \/ newVariant.nul THEN Thrown
           ELSE IF \/ oldVariant.option1 # newVariant.option1
                   \/ oldVariant.option2 # newVariant.option2
                   \/ oldVariant.option3 # newVariant.option3
             THEN Done([Change("variant_options") EXCEPT
                          !.variantIndex = i - 1,
                          !.oldVariant = oldVariant.title,
                          !.newVariant = newVariant.title])
           ELSE IF oldVariant.title # newVariant.title
             THEN Done([Change("variant_title") EXCEPT
                          !.variantIndex = i - 1,
                          !.oldValue = oldVariant.title,
                          !.newValue = newVariant.title])
           ELSE CheckVariants(oldVariants, newVariants, i + 1)

\* the comparator with the option count checked before the variant count
CompareTryBlockOptionsFirst(old, new) ==
  IF old.nul \/ new.nul THEN Thrown
  ELSE LET oldVariants == OrEmpty(old.variants)
           newVariants == OrEmpty(new.variants)
           oldOptions == OrEmpty(old.options)
           newOptions == OrEmpty(new.options)
       IN  IF Len(oldOptions) # Len(newOptions)
             THEN Done(CountChange("option_count", Len(oldOptions), Len(newOptions)))
           ELSE IF Len(oldVariants) # Len(newVariants)
             THEN Done(CountChange("variant_count", Len(oldVariants), Len(newVariants)))
           ELSE LET o == CheckOptions(oldOptions, newOptions, 1)
                IN  IF o.throws \/ o.hit THEN o
                    ELSE LET v == CheckVariants(oldVariants, newVariants, 1)
                         IN  IF v.throws \/ v.hit THEN v ELSE Done(NoChange)

\* the try block of detectVariantChanges
CompareTryBlock(old, new) ==
  IF old.nul \/ new.nul THEN Thrown
  ELSE LET oldVariants == OrEmpty(old.variants)
           newVariants == OrEmpty(new.variants)
           oldOptions == OrEmpty(old.options)
           newOptions == OrEmpty(new.options)
       IN  IF Len(oldVariants) # Len(newVariants)
             THEN Done(CountChange("variant_count", Len(oldVariants), Len(newVariants)))
           ELSE IF Len(oldOptions) # Len(newOptions)
             THEN Done(CountChange("option_count", Len(oldOptions), Len(newOptions)))
           ELSE LET o == CheckOptions(oldOptions, newOptions, 1)
                IN  IF o.throws \/ o.hit THEN o
                    ELSE LET v == CheckVariants(oldVariants, newVariants, 1)
                         IN  IF v.throws \/ v.hit THEN v ELSE Done(NoChange)

\* a catch block that reports no change instead of an error
detectVariantChangesFailClosed(old, new) ==
  LET r == CompareTryBlock(old, new)
  IN  IF r.throws THEN [raised |-> FALSE, result |-> NoChange]
      ELSE [raised |-> FALSE, result |-> r.result]

\* try { ... } catch (error) { return { hasChanges: true, changeType: 'error' } }
detectVariantChanges(old, new) ==
  LET r == CompareTryBlock(old, new)
  IN  IF r.throws THEN [raised |-> FALSE, result |-> Change("error")]
      ELSE [raised |-> FALSE, result |-> r.result]

(***************************************************************************)
(* VariantParser.formatVariantsForDescription.  The summary is a text: a   *)
(* sequence of tokens, a token being an option name, a value, a title or   *)
(* one of the separators ": ", ", " and "; ".                              *)
(***************************************************************************)
\* if (value), x || y: undefined, null and the empty string are falsy
IsTruthy(x) == x \notin {UNDEF, NULL, ""}

\* ${x} in a template literal
ToText(x) ==
  CASE x = UNDEF -> "undefined"
    [] x = NULL -> "null"
    [] OTHER -> x

\* the slot read as variant[`option${index}`]: the index is not moved to 1..3
SlotZeroBased(variant, index) ==
  CASE index = 1 -> variant.option1
    [] index = 2 -> variant.option2
    [] index = 3 -> variant.option3
    [] OTHER -> UNDEF

\* variant[`option${index + 1}`] for the index of forEach (from 0); a variant
\* has no option4, option5, ...
Slot(variant, index) ==
  CASE index = 0 -> variant.option1
    [] index = 1 -> variant.option2
    [] index = 2 -> variant.option3
    [] OTHER -> UNDEF

RECURSIVE Join(_, _)
\* parts.join(sep) for an array of texts
Join(parts, sep) ==
  IF parts = <<>> THEN <<>>
  ELSE IF Len(parts) = 1 THEN Head(parts)
  ELSE Head(parts) \o sep \o Join(Tail(parts), sep)

RECURSIVE OptionValuesFrom(_, _, _)
\* optionNames.forEach((optionName, index) => ...) from position index + 1:
\* the texts pushed to optionValues
OptionValuesFrom(variant, optionNames, index) ==
  IF index >= Len(optionNames) THEN <<>>
  ELSE LET value == Slot(variant, index)
           rest == OptionValuesFrom(variant, optionNames, index + 1)
       IN  IF IsTruthy(value)
             THEN <<<<ToText(optionNames[index + 1]), ": ", ToText(value)>>>> \o rest
             ELSE rest

\* the callback of variants.map
FormatVariant(variant, optionNames) ==
  LET optionValues == OptionValuesFrom(variant, optionNames, 0)
  IN  IF Len(optionValues) > 0 THEN Join(optionValues, <<", ">>)
      ELSE IF IsTruthy(variant.title) THEN <<ToText(variant.title)>>
      ELSE <<"Standard">>

\* the try block without the test for an empty list: only !variants
FormatTryBlockNoLengthTest(variants, options) ==
  IF ~variants.def
    THEN [throws |-> FALSE, value |-> Str(<<"Standard">>)]
  ELSE IF options.def /\ \E i \in 1..Len(options.items) : options.items[i].nul
    THEN [throws |-> TRUE, value |-> NullVal]
  ELSE IF \E i \in 1..Len(variants.items) : variants.items[i].nul
    THEN [throws |-> TRUE, value |-> NullVal]
  ELSE LET optionNames == [i \in 1..Len(OrEmpty(options)) |-> options.items[i].name]
       IN  [throws |-> FALSE,
            value |-> Str(Join([i \in 1..Len(variants.items) |->
                                  FormatVariant(variants.items[i], optionNames)],
                               <<"; ">>))]

\* the try block of formatVariantsForDescription: [throws, value]
FormatTryBlock(variants, options) ==
  IF ~variants.def \/ Len(variants.items) = 0
    THEN [throws |-> FALSE, value |-> Str(<<"Standard">>)]
  ELSE IF options.def /\ \E i \in 1..Len(options.items) : options.items[i].nul
    THEN \* opt.name of null
         [throws |-> TRUE, value |-> NullVal]
  ELSE IF \E i \in 1..Len(variants.items) : variants.items[i].nul
    THEN \* variant.option1 or variant.title of null
         [throws |-> TRUE, value |-> NullVal]
  ELSE LET optionNames == [i \in 1..Len(OrEmpty(options)) |-> options.items[i].name]
       IN  [throws |-> FALSE,
            value |-> Str(Join([i \in 1..Len(variants.items) |->
                                  FormatVariant(variants.items[i], optionNames)],
                               <<"; ">>))]

\* the function without its catch block
formatVariantsForDescriptionNoCatch(variants, options) ==
  LET r == FormatTryBlock(variants, options)
  IN  [raised |-> r.throws, value |-> r.value]

\* try { ... } catch (error) { return 'Standard'; }
formatVariantsForDescription(variants, options) ==
  LET r == FormatTryBlock(variants, options)
  IN  IF r.throws THEN [raised |-> FALSE, value |-> Str(<<"Standard">>)]
      ELSE [raised |-> FALSE, value |-> r.value]

(***************************************************************************)
(* The snapshots compared.                                                 *)
(***************************************************************************)
vA == Variant("A", "A", UNDEF, UNDEF)

vB == Variant("B", "B", UNDEF, UNDEF)

\* vA under another title
vAt == Variant("B", "A", UNDEF, UNDEF)

\* vA with an unused slot that is null, not missing
vAn == Variant("A", "A", NULL, UNDEF)

\* vA with a value in the third slot
vA3 == Variant("A", "A", UNDEF, "Z")

oSA == Option("Size", Arr(<<"A">>))

oSB == Option("Size", Arr(<<"B">>))

oCA == Option("Color", Arr(<<"A">>))

oSAB == Option("Size", Arr(<<"A", "B">>))

\* oSAB with its two values in the other order
oSBA == Option("Size", Arr(<<"B", "A">>))

\* an option without a values field
oSU == Option("Size", NoArr)

\* an option with an empty values list
oSE == Option("Size", Arr(<<>>))

CoreVariants == {vA, vB, vAt}

CoreOptions == {oSA, oSB, oCA}

VariantLists ==
  UNION {[1..n -> CoreVariants] : n \in 0..MaxVariants}
    \cup {<<vAn>>, <<vA3>>, <<NullVariant>>, <<vA, NullVariant>>}

OptionLists ==
  UNION {[1..n -> CoreOptions] : n \in 0..MaxOptions}
    \cup {<<oSAB>>, <<oSBA>>, <<oSU>>, <<oSE>>, <<NullOption>>, <<oSA, NullOption>>}

BaseVariantLists == {<<>>, <<vA>>, <<vA, vB>>}

BaseOptionLists == {<<>>, <<oSA>>, <<oSA, oCA>>}

\* every variant list under a few option lists, every option list under a
\* few variant lists, a snapshot without the two fields, and no snapshot
Products ==
  {Product(Arr(vs), Arr(os)) : vs \in VariantLists, os \in BaseOptionLists}
    \cup {Product(Arr(vs), Arr(os)) : vs \in BaseVariantLists, os \in OptionLists}
    \cup {Product(NoArr, NoArr), NullProduct}

\* neither snapshot nor any of their elements is null
WellFormed(p) ==
  /\ ~p.nul
  /\ \A i \in 1..Len(OrEmpty(p.variants)) : ~OrEmpty(p.variants)[i].nul
  /\ \A i \in 1..Len(OrEmpty(p.options)) : ~OrEmpty(p.options)[i].nul

\* before the first comparison
NoResult == [NoChange EXCEPT !.changeType = "none"]

(***************************************************************************)
(* The server at rest: no request at work, nothing registered, no webhook  *)
(* on its way.                                                             *)
(***************************************************************************)
\* a product of the store as the REST client returns it and as a webhook
\* carries it: body_html, and the variants and options
Snapshot(body, data) == [body |-> body, data |-> data]

NoSnapshot == Snapshot(NullVal, NullProduct)

\* a request slot that holds no request
IdleCall ==
  [op |-> "none", productId |-> "none", pc |-> "idle", registered |-> FALSE,
   data |-> NullProduct, content |-> NullVal, status |-> "none"]

FlowAtRest ==
  /\ store = NoSnapshot
  /\ processingQueue = {}
  /\ calls = [c \in 1..MaxCalls |-> IdleCall]
  /\ webhooks = <<>>

(***************************************************************************)
(* The patcher as a state machine: the description of one product, patched *)
(* again and again.                                                        *)
(***************************************************************************)
InitPatch ==
  /\ htmlDescription \in Documents
  /\ original = htmlDescription
  /\ formattedVariants = NullVal
  /\ outcome = "idle"
  /\ oldProduct = NullProduct
  /\ newProduct = NullProduct
  /\ changeResult = NoResult
  /\ storeUpdates = <<>>
  /\ FlowAtRest

\* one call updateVariantsBulletPoint(htmlDescription, fv); the caller stores
\* the value returned
UpdateVariantsBulletPoint(fv) ==
  LET r == updateVariantsBulletPoint(htmlDescription, fv)
  IN  /\ original' = htmlDescription
      /\ formattedVariants' = fv
      /\ outcome' = IF r.raised THEN "raised" ELSE "returned"
      /\ htmlDescription' = IF r.raised THEN htmlDescription ELSE r.value
      /\ UNCHANGED <<compareVars, storeUpdates, flowVars>>

NextPatch == \E fv \in Summaries : UpdateVariantsBulletPoint(fv)

SpecPatch == InitPatch /\ [][NextPatch]_vars

(***************************************************************************)
(* The comparator applied to a stored snapshot and a new one.              *)
(***************************************************************************)
InitCompare ==
  /\ oldProduct \in Products
  /\ newProduct \in Products
  /\ changeResult = NoResult
  /\ htmlDescription = NullVal
  /\ original = NullVal
  /\ formattedVariants = NullVal
  /\ outcome = "idle"
  /\ storeUpdates = <<>>
  /\ FlowAtRest

\* one call detectVariantChanges(oldProduct, newProduct)
DetectVariantChanges ==
  /\ changeResult = NoResult
  /\ LET r == detectVariantChanges(oldProduct, newProduct)
     IN  /\ changeResult' = r.result
         /\ outcome' = IF r.raised THEN "raised" ELSE "returned"
  /\ UNCHANGED <<oldProduct, newProduct, htmlDescription, original,
                 formattedVariants, storeUpdates>>
  /\ UNCHANGED flowVars

NextCompare == DetectVariantChanges

SpecCompare == InitCompare /\ [][NextCompare]_vars

(***************************************************************************)
(* GeminiService.addVariantsBulletPoint                                    *)
(***************************************************************************)
\* the try block: [throws, value]
AddTryBlock(html, productData) ==
  IF productData.nul THEN [throws |-> TRUE, value |-> NullVal]
  ELSE LET fv == formatVariantsForDescription(productData.variants,
                                              productData.options).value
       IN  IF NoMeaningfulShortCircuit(fv) \/ TrimIsEmpty(fv.v)
             THEN [throws |-> FALSE, value |-> html]
           ELSE IF html.t # "str" THEN [throws |-> TRUE, value |-> NullVal]
           ELSE [throws |-> FALSE,
                 value |-> Str(ReplaceFirstUl(html.v,
                                 <<DOLLAR1, NL, SP, SP>> \o newVariantsBullet(fv.v)))]

\* try { ... } catch (error) { return htmlDescription; }
addVariantsBulletPoint(html, productData) ==
  LET r == AddTryBlock(html, productData)
  IN  IF r.throws THEN [raised |-> FALSE, value |-> html]
      ELSE [raised |-> FALSE, value |-> r.value]

(***************************************************************************)
(* The products formatted and the descriptions they carry.                 *)
(***************************************************************************)
\* the text that marks a description as generated
VerifiedBy == "<strong>Verified by Gemmologist Reza Piroznia</strong>"

\* !product.body_html || !product.body_html.includes('Verified by ...')
LacksAIDescription(body) ==
  ~Truthy(body) \/ body.t # "str" \/ ~Includes(body.v, VerifiedBy)

fSG == Variant("Small / Gold", "Small", "Gold", NULL)

fMG == Variant("Medium / Gold", "Medium", "Gold", NULL)

\* the only variant of a product without variants
fDT == Variant("Default Title", "Default Title", NULL, NULL)

\* a variant without a title
fS == Variant(UNDEF, "Small", UNDEF, UNDEF)

\* a variant with an empty first slot and an empty title
fE == Variant("", "", UNDEF, UNDEF)

\* a variant with a value in the second slot only
fG == Variant("One size", NULL, "Gold", UNDEF)

\* a variant with three slots
f3 == Variant("Small / Gold / Red", "Small", "Gold", "Red")

oSize == Option("Size", Arr(<<"Small", "Medium">>))

oMaterial == Option("Material", Arr(<<"Gold">>))

oColor == Option("Color", Arr(<<"Red">>))

FormatVariants == {fSG, fMG, fDT, fS, fE, fG}

FormatOptions == {oSize, oMaterial, oColor}

FormatVariantArrays ==
  {Arr(vs) : vs \in UNION {[1..n -> FormatVariants] : n \in 0..MaxVariants}
                     \cup {<<f3>>, <<NullVariant>>, <<fSG, NullVariant>>}}
    \cup {NoArr}

\* the options of a product have names of their own
FormatOptionLists ==
  {os \in UNION {[1..n -> FormatOptions] : n \in 0..MaxOptions} :
     \A i, j \in 1..Len(os) : os[i] = os[j] => i = j}

FormatOptionArrays ==
  {Arr(os) : os \in FormatOptionLists
                     \cup {<<oSize, oMaterial, oColor>>, <<NullOption>>,
                           <<oSize, NullOption>>}}
    \cup {NoArr}

FormatProducts ==
  {Product(vs, os) : vs \in FormatVariantArrays, os \in FormatOptionArrays}
    \cup {NullProduct}

\* a generated description, as the store returns it
Generated(items) ==
  <<"<h2>", UL>> \o items \o Gap \o PlainItem \o Gap
    \o <<LI, VerifiedBy, ELI, NL, EUL>>

\* the stored bullet of a product whose variants are Small / Gold
BulletSmallGold ==
  newVariantsBullet(<<"Size", ": ", "Small", ", ", "Material", ": ", "Gold">>)

\* generated descriptions without a bullet, with the bullet of the product,
\* with an older bullet; a description written by hand; no description
SyncDocuments ==
  {Str(Generated(<<>>)), Str(Generated(Gap \o BulletSmallGold)),
   Str(Generated(Gap \o BulletStored)), Str(Wrap("ul", PlainItem)),
   Str(<<>>), NullVal}

(***************************************************************************)
(* The formatter and its callers as a state machine: a product of the      *)
(* store (newProduct) with its description (htmlDescription).              *)
(***************************************************************************)
InitSync ==
  /\ newProduct \in FormatProducts
  /\ htmlDescription \in SyncDocuments
  /\ original = htmlDescription
  /\ formattedVariants = NullVal
  /\ outcome = "idle"
  /\ oldProduct = NullProduct
  /\ changeResult = NoResult
  /\ storeUpdates = <<>>
  /\ FlowAtRest

\* one call formatVariantsForDescription(product.variants, product.options)
FormatVariantsForDescription ==
  /\ outcome = "idle"
  /\ LET r == formatVariantsForDescription(newProduct.variants, newProduct.options)
     IN  /\ formattedVariants' = r.value
         /\ outcome' = IF r.raised THEN "raised" ELSE "formatted"
  /\ UNCHANGED <<htmlDescription, original, compareVars, storeUpdates>>
  /\ UNCHANGED flowVars

\* one call addVariantsBulletPoint(htmlDescription, productData) on a
\* description that was just generated
AddVariantsBulletPoint ==
  /\ outcome = "idle"
  /\ LET r == addVariantsBulletPoint(htmlDescription, newProduct)
     IN  /\ htmlDescription' = IF r.raised THEN htmlDescription ELSE r.value
         /\ outcome' = IF r.raised THEN "raised" ELSE "added"
  /\ original' = htmlDescription
  /\ UNCHANGED <<formattedVariants, compareVars, storeUpdates>>
  /\ UNCHANGED flowVars

\* one call updateVariantsInDescription(productId); accepted tells whether
\* the store accepts the update
UpdateVariantsInDescription(accepted) ==
  /\ Len(storeUpdates) < MaxUpdates
  /\ outcome \in {"idle", "added", "success", "skipped", "rejected"}
  /\ original' = htmlDescription
  /\ IF newProduct.nul
       THEN \* getProduct throws
            /\ outcome' = "not_found"
            /\ UNCHANGED <<htmlDescription, formattedVariants, storeUpdates>>
     ELSE IF LacksAIDescription(htmlDescription)
       THEN /\ outcome' = "skipped"
            /\ UNCHANGED <<htmlDescription, formattedVariants, storeUpdates>>
     ELSE LET fv == formatVariantsForDescription(newProduct.variants,
                                                 newProduct.options).value
              updatedDescription == updateVariantsBulletPoint(htmlDescription, fv).value
          IN  /\ formattedVariants' = fv
              /\ storeUpdates' = Append(storeUpdates, updatedDescription)
              /\ htmlDescription' =
                   IF accepted THEN updatedDescription ELSE htmlDescription
              /\ outcome' = IF accepted THEN "success" ELSE "rejected"
  /\ UNCHANGED compareVars
  /\ UNCHANGED flowVars

NextSync ==
  \/ FormatVariantsForDescription
  \/ AddVariantsBulletPoint
  \/ \E accepted \in BOOLEAN : UpdateVariantsInDescription(accepted)

SpecSync == InitSync /\ [][NextSync]_vars

(***************************************************************************)
(* The server: the webhook route, the operator routes and the calls they   *)
(* make, for one product of the store, "p1".  A request is followed        *)
(* through its awaits: the fetch of the product, the generation of the     *)
(* text, the update of the store.                                          *)
(***************************************************************************)
ProductIds == {"p1"}

VerifiedAndCertifiedBy ==
  "<strong>Verified and Certified by Gemmologist Reza Piroznia</strong>"

Guarantee == "7-day money-back guarantee"

Refund == "This product has <a>7 days refund</a>"

\* product.body_html && includes('Verified by ...') && includes('<h2>')
\*   && includes('<ul>')
hasAIGeneratedDescription(body) ==
  /\ Truthy(body)
  /\ body.t = "str"
  /\ Includes(body.v, VerifiedBy)
  /\ Includes(body.v, "<h2>")
  /\ Includes(body.v, UL)

\* the description holds every required element
validateDescription(description) ==
  \A element \in {"<h2>", UL, LI, VerifiedAndCertifiedBy, Guarantee} :
    Includes(description.v, element)

\* validateGeneratedContent does not throw
validateGeneratedContent(description) ==
  Truthy(description) /\ description.t = "str" /\ validateDescription(description)

\* a generated text with the given closing bullets
GeneratedText(marks) ==
  <<"<h2>", UL>> \o Gap \o PlainItem
    \o Flatten([i \in 1..Len(marks) |-> Gap \o <<LI, marks[i], ELI>>])
    \o <<NL, EUL>>

\* the text as the prompt asks for it
PromptText == Str(GeneratedText(<<VerifiedBy, Refund>>))

\* the text with the closing bullet the validation asks for
CertifiedText == Str(GeneratedText(<<VerifiedAndCertifiedBy, Guarantee>>))

\* what the generation can return; null stands for a call that throws
GeneratedTexts == {PromptText, CertifiedText, NullVal}

pSG == Product(Arr(<<fSG>>), Arr(<<oSize, oMaterial>>))

pSGMG == Product(Arr(<<fSG, fMG>>), Arr(<<oSize, oMaterial>>))

FlowProducts == {pSG, pSGMG}

\* content.description for a text of the generator and the product it was
\* generated for: the text with the variants bullet added (null when the
\* generation throws)
DescriptionOf ==
  [text \in GeneratedTexts, data \in FlowProducts |->
     IF text = NullVal THEN NullVal
     ELSE addVariantsBulletPoint(text, data).value]

\* whether validateGeneratedContent accepts that description
Accepted ==
  [text \in GeneratedTexts, data \in FlowProducts |->
     validateGeneratedContent(DescriptionOf[text, data])]

\* the descriptions a product starts with: none, and a generated one with
\* its bullet
FlowBodies == {NullVal, Str(Generated(Gap \o BulletSmallGold))}

\* a products/update webhook: the product after the write and, for the
\* claims, the variants and options before it
Webhook(product, old) == [product |-> product, old |-> old]

\* VariantParser.detectVariantChanges(product): the second argument is
\* undefined
hasVariantChanges(product) == detectVariantChanges(product.data, NullProduct).result

\* an object is truthy whatever its fields hold
TruthyObject(r) == DOMAIN r # {}

\* the action handleProductUpdate returns
handleProductUpdate(product) ==
  IF LacksAIDescription(product.body) THEN "generate_description"
  ELSE IF TruthyObject(hasVariantChanges(product)) THEN "update_variants"
  ELSE "skip"

FreeSlots == {c \in 1..MaxCalls : calls[c].pc \in {"idle", "done"}}

FreeSlot == CHOOSE c \in FreeSlots : \A d \in FreeSlots : c <= d

\* a request at work
Call(op, productId, pc, registered, data) ==
  [IdleCall EXCEPT !.op = op, !.productId = productId, !.pc = pc,
                   !.registered = registered, !.data = data,
                   !.status = "pending"]

\* the request has returned
Returns(call, status) ==
  [IdleCall EXCEPT !.op = call.op, !.productId = call.productId,
                   !.pc = "done", !.status = status]

restVars == <<patchVars, compareVars, storeUpdates>>

RestAtRest ==
  /\ htmlDescription = NullVal
  /\ original = NullVal
  /\ formattedVariants = NullVal
  /\ outcome = "idle"
  /\ oldProduct = NullProduct
  /\ newProduct = NullProduct
  /\ changeResult = NoResult
  /\ storeUpdates = <<>>

InitFlow ==
  /\ store \in {Snapshot(body, pSG) : body \in FlowBodies}
  /\ processingQueue = {}
  /\ calls = [c \in 1..MaxCalls |-> IdleCall]
  /\ webhooks = <<>>
  /\ RestAtRest

\* the merchant edits the product (its variants, or anything else); the
\* store sends a products/update webhook
ExternalEdit(data) ==
  /\ Len(webhooks) < MaxPending
  /\ store' = Snapshot(store.body, data)
  /\ webhooks' = Append(webhooks, Webhook(store', store.data))
  /\ UNCHANGED <<processingQueue, calls, restVars>>

\* POST /generate-description/:productId: generateProductDescription up to
\* its first await
GenerateDescriptionRequest(productId) ==
  /\ FreeSlots # {}
  /\ IF productId \in processingQueue
       THEN /\ calls' = [calls EXCEPT ![FreeSlot] =
                 Returns(Call("generateProductDescription", productId, "done",
                              FALSE, NullProduct), "already_processing")]
            /\ UNCHANGED processingQueue
       ELSE /\ processingQueue' = processingQueue \cup {productId}
            /\ calls' = [calls EXCEPT ![FreeSlot] =
                 Call("generateProductDescription", productId, "getProduct",
                      TRUE, NullProduct)]
  /\ UNCHANGED <<store, webhooks, restVars>>

\* POST /update-variants/:productId: updateVariantsInDescription up to its
\* first await
UpdateVariantsRequest(productId) ==
  /\ FreeSlots # {}
  /\ calls' = [calls EXCEPT ![FreeSlot] =
       Call("updateVariantsInDescription", productId, "getProduct", FALSE,
            NullProduct)]
  /\ UNCHANGED <<store, processingQueue, webhooks, restVars>>

\* DELETE /clear-queue
ClearProcessingQueue ==
  /\ processingQueue # {}
  /\ processingQueue' = {}
  /\ UNCHANGED <<store, calls, webhooks, restVars>>

\* the webhook route takes a products/update webhook: processWebhook, then
\* handleWebhookTrigger or updateVariantsInDescription up to the first await.
\* The barcode block at the end of the route calls
\* shopifyService.updateProductVariants, which the service does not define:
\* the TypeError is caught and logged there, and nothing is written.
DeliverWebhook ==
  /\ webhooks # <<>>
  /\ FreeSlots # {}
  /\ LET product == Head(webhooks).product
         action == handleProductUpdate(product)
     IN  calls' = [calls EXCEPT ![FreeSlot] =
           IF action = "generate_description"
             THEN IF hasAIGeneratedDescription(product.body)
                    THEN Returns(Call("generateDescriptionFromData", "p1", "done",
                                      FALSE, NullProduct), "already_generated")
                    ELSE Call("generateDescriptionFromData", "p1", "generate",
                              FALSE, product.data)
           ELSE IF action = "update_variants"
             THEN Call("updateVariantsInDescription", "p1", "getProduct", FALSE,
                       NullProduct)
           ELSE Returns(Call("none", "p1", "done", FALSE, NullProduct), "skip")]
  /\ webhooks' = Tail(webhooks)
  /\ UNCHANGED <<store, processingQueue, restVars>>

\* getProduct, with the already_generated return leaving the entry of the
\* product in the processing queue
GetProductKeepsEntry(c, found) ==
  /\ calls[c].pc = "getProduct"
  /\ LET call == calls[c]
     IN  IF call.op = "generateProductDescription"
           THEN /\ IF found /\ ~hasAIGeneratedDescription(store.body)
                     THEN /\ calls' = [calls EXCEPT ![c] =
                               [call EXCEPT !.pc = "generate", !.data = store.data]]
                          /\ UNCHANGED processingQueue
                     ELSE /\ calls' = [calls EXCEPT ![c] =
                               Returns(call, IF found THEN "already_generated"
                                             ELSE "error")]
                          /\ processingQueue' =
                               IF found THEN processingQueue
                               ELSE processingQueue \ {call.productId}
           ELSE /\ calls' = [calls EXCEPT ![c] =
                     IF ~found THEN Returns(call, "error")
                     ELSE IF LacksAIDescription(store.body)
                       THEN Returns(call, "skipped")
                     ELSE LET fv == formatVariantsForDescription(
                                      store.data.variants, store.data.options).value
                          IN  [call EXCEPT
                                 !.pc = "persist",
                                 !.content = updateVariantsBulletPoint(store.body, fv).value]]
                /\ UNCHANGED processingQueue
  /\ UNCHANGED <<store, webhooks, restVars>>

\* shopifyService.getProduct returns (found) or throws, and the caller goes
\* on to its next await
GetProduct(c, found) ==
  /\ calls[c].pc = "getProduct"
  /\ LET call == calls[c]
     IN  IF call.op = "generateProductDescription"
           THEN /\ IF found /\ ~hasAIGeneratedDescription(store.body)
                     THEN /\ calls' = [calls EXCEPT ![c] =
                               [call EXCEPT !.pc = "generate", !.data = store.data]]
                          /\ UNCHANGED processingQueue
                     ELSE /\ calls' = [calls EXCEPT ![c] =
                               Returns(call, IF found THEN "already_generated"
                                             ELSE "error")]
                          /\ processingQueue' = processingQueue \ {call.productId}
           ELSE /\ calls' = [calls EXCEPT ![c] =
                     IF ~found THEN Returns(call, "error")
                     ELSE IF LacksAIDescription(store.body)
                       THEN Returns(call, "skipped")
                     ELSE LET fv == formatVariantsForDescription(
                                      store.data.variants, store.data.options).value
                          IN  [call EXCEPT
                                 !.pc = "persist",
                                 !.content = updateVariantsBulletPoint(store.body, fv).value]]
                /\ UNCHANGED processingQueue
  /\ UNCHANGED <<store, webhooks, restVars>>

\* geminiService.generateAllContent returns a text (or throws), the variants
\* bullet is added and the content validated
GenerateAllContent(c, text) ==
  /\ calls[c].pc = "generate"
  /\ LET call == calls[c]
     IN  IF Accepted[text, call.data]
           THEN /\ calls' = [calls EXCEPT ![c] =
                     [call EXCEPT !.pc = "persist",
                                  !.content = DescriptionOf[text, call.data],
                                  !.data = NullProduct]]
                /\ UNCHANGED processingQueue
           ELSE /\ calls' = [calls EXCEPT ![c] = Returns(call, "error")]
                /\ processingQueue' =
                     IF call.op = "generateProductDescription"
                       THEN processingQueue \ {call.productId}
                       ELSE processingQueue
  /\ UNCHANGED <<store, webhooks, restVars>>

\* shopify.product.update returns (accepted) or throws; the store sends a
\* products/update webhook for a write it accepts
ProductUpdate(c, accepted) ==
  /\ calls[c].pc = "persist"
  /\ accepted => Len(webhooks) < MaxPending
  /\ LET call == calls[c]
     IN  /\ calls' = [calls EXCEPT ![c] =
               Returns(call, IF accepted THEN "success" ELSE "error")]
         /\ processingQueue' =
              IF call.op = "generateProductDescription"
                THEN processingQueue \ {call.productId}
                ELSE processingQueue
         /\ IF accepted
              THEN /\ store' = Snapshot(call.content, store.data)
                   /\ webhooks' = Append(webhooks, Webhook(store', store.data))
              ELSE UNCHANGED <<store, webhooks>>
  /\ UNCHANGED restVars

\* the next await of request c resolves
Resume(c) ==
  \/ \E found \in BOOLEAN : GetProduct(c, found)
  \/ \E text \in GeneratedTexts : GenerateAllContent(c, text)
  \/ \E accepted \in BOOLEAN : ProductUpdate(c, accepted)

NextFlow ==
  \/ \E data \in FlowProducts : ExternalEdit(data)
  \/ \E productId \in ProductIds : GenerateDescriptionRequest(productId)
  \/ \E productId \in ProductIds : UpdateVariantsRequest(productId)
  \/ ClearProcessingQueue
  \/ DeliverWebhook
  \/ \E c \in 1..MaxCalls : Resume(c)

SpecFlow == InitFlow /\ [][NextFlow]_vars

(***************************************************************************)
(* The webhook loop: the server after one edit of the merchant, left to    *)
(* itself.  The event loop runs every continuation that is ready, a        *)
(* request to the store or to the generator is answered (or fails) in the  *)
(* end, and the store delivers the webhooks it has sent.                   *)
(***************************************************************************)
\* the descriptions the edited product may carry
LoopBodies ==
  SyncDocuments
    \cup {PromptText, CertifiedText}
    \cup {DescriptionOf[text, data] :
            text \in {PromptText, CertifiedText}, data \in FlowProducts}

InitLoop ==
  /\ \E body \in LoopBodies, old \in FlowProducts, data \in FlowProducts :
       /\ store = Snapshot(body, data)
       /\ webhooks = <<Webhook(store, old)>>
  /\ processingQueue = {}
  /\ calls = [c \in 1..MaxCalls |-> IdleCall]
  /\ RestAtRest

NextLoop ==
  \/ DeliverWebhook
  \/ \E c \in 1..MaxCalls : Resume(c)

SpecLoop ==
  /\ InitLoop
  /\ [][NextLoop]_vars
  /\ WF_vars(DeliverWebhook)
  /\ \A c \in 1..MaxCalls : WF_vars(Resume(c))

(***************************************************************************)
(* What the claims speak of: the "Available Variants" list items of a      *)
(* document, read off its structure (a list item whose first content is    *)
(* the bold label, up to the closing tag of the item, whatever its text).  *)
(***************************************************************************)
\* the position of the first </li> after position i, 0 when there is none
ItemClose(d, i) ==
  IF \E k \in (i + 1)..Len(d) : d[k] = ELI
    THEN CHOOSE k \in (i + 1)..Len(d) :
           d[k] = ELI /\ \A m \in (i + 1)..(k - 1) : d[m] # ELI
    ELSE 0

IsVariantBulletAt(d, i) ==
  /\ i \in 1..Len(d)
  /\ d[i] = LI
  /\ LET j == SkipWs(d, i + 1)
     IN  j <= Len(d) /\ d[j] = LBL /\ ItemClose(d, j) # 0

NumVariantBullets(d) == Cardinality({i \in 1..Len(d) : IsVariantBulletAt(d, i)})

\* the text of the bullet at i: what stands between the label and </li>
BulletText(d, i) ==
  LET j == SkipWs(d, i + 1)
  IN  SubSeq(d, j + 1, ItemClose(d, j) - 1)

RECURSIVE OutsideFrom(_, _, _)
\* the document without its variant bullets; with mark, one mark per bullet
OutsideFrom(d, i, mark) ==
  IF i > Len(d) THEN <<>>
  ELSE IF IsVariantBulletAt(d, i)
    THEN mark \o OutsideFrom(d, ItemClose(d, SkipWs(d, i + 1)) + 1, mark)
    ELSE <<d[i]>> \o OutsideFrom(d, i + 1, mark)

Outside(d) == OutsideFrom(d, 1, <<>>)

WithMarks(d) == OutsideFrom(d, 1, <<"#bullet">>)

NonWs(d) == SelectSeq(d, LAMBDA t : ~IsWs(t))

\* the last call returned a string document
Returned == outcome = "returned" /\ original.t = "str"

\* a summary that is a text other than the sentinel and not blank
Meaningful(fv) ==
  fv.t = "str" /\ fv.v # <<>> /\ fv.v # <<"Standard">> /\ ~TrimIsEmpty(fv.v)

\* a summary that is "Standard", empty or whitespace-only
NoVariants(fv) ==
  fv.t = "str" /\ (fv.v = <<>> \/ fv.v = <<"Standard">> \/ TrimIsEmpty(fv.v))

(***************************************************************************)
(* C1: patch idempotence.  Applying to the result of a call the summary of *)
(* that call once more changes nothing.                                    *)
(***************************************************************************)
C1_PatchIdempotent ==
  outcome = "returned" =>
    updateVariantsBulletPoint(htmlDescription, formattedVariants).value
      = htmlDescription

(***************************************************************************)
(* C2: after one call the document holds at most one "Available Variants"  *)
(* bullet, and exactly one when it held two or more and the summary is a   *)
(* variant summary.                                                        *)
(***************************************************************************)
C2_AtMostOneBullet ==
  Returned =>
    /\ NumVariantBullets(htmlDescription.v) <= 1
    /\ (Meaningful(formattedVariants) /\ NumVariantBullets(original.v) >= 2)
         => NumVariantBullets(htmlDescription.v) = 1

\* out is in with one run of tokens put in, the run being whitespace and
\* variant bullets only
InsertedOnlyABullet(in, out) ==
  LET n == Len(out) - Len(in)
  IN  /\ n >= 0
      /\ \E i \in 0..Len(in) :
           /\ SubSeq(out, 1, i) = SubSeq(in, 1, i)
           /\ SubSeq(out, i + n + 1, Len(out)) = SubSeq(in, i + 1, Len(in))
           /\ NonWs(Outside(SubSeq(out, i + 1, i + n))) = <<>>

RECURSIVE RemovedWithFollowingWs(_, _)
\* a is b (both with their bullets marked) after some of the bullets of b were
\* taken out, each together with the whitespace that directly follows it
RemovedWithFollowingWs(a, b) ==
  IF b = <<>> THEN a = <<>>
  ELSE IF Head(b) = "#bullet"
    THEN \/ a # <<>> /\ Head(a) = "#bullet" /\ RemovedWithFollowingWs(Tail(a), Tail(b))
         \/ RemovedWithFollowingWs(a, SubSeq(b, SkipWs(b, 2), Len(b)))
    ELSE a # <<>> /\ Head(a) = Head(b) /\ RemovedWithFollowingWs(Tail(a), Tail(b))

C4_StandardRemovesEveryBullet ==
  (Returned /\ NoVariants(formattedVariants))
    => NumVariantBullets(htmlDescription.v) = 0

(***************************************************************************)
(* C5: with a variant summary S a document with a list goes from absent,   *)
(* present-single or present-duplicated to present-single, the one bullet  *)
(* reading S; with "Standard" or an empty summary it goes to absent.       *)
(***************************************************************************)
C5_BulletStateTransitions ==
  (Returned /\ Includes(original.v, UL)) =>
    LET out == htmlDescription.v
    IN  /\ Meaningful(formattedVariants) =>
             /\ NumVariantBullets(out) = 1
             /\ \A i \in 1..Len(out) : IsVariantBulletAt(out, i) =>
                  BulletText(out, i) = <<SP>> \o formattedVariants.v
        /\ NoVariants(formattedVariants) => NumVariantBullets(out) = 0

(***************************************************************************)
(* C6: with a variant summary and a document without a variants bullet,    *)
(* the new bullet is put right after the first <ul> (on a line of its own) *)
(* and nowhere else; the rest of the document, later lists included, is    *)
(* what it was.  Without any <ul> nothing is inserted.                     *)
(***************************************************************************)
C6_InsertAfterFirstUl ==
  (Returned /\ Meaningful(formattedVariants) /\ NumVariantBullets(original.v) = 0)
    => LET in == original.v
           out == htmlDescription.v
           k == FirstIndexOf(in, UL)
       IN  IF k = 0 THEN out = in
           ELSE /\ SubSeq(out, 1, k) = SubSeq(in, 1, k)
                /\ SubSeq(out, k + 1, k + 3) = <<NL, SP, SP>>
                /\ IsVariantBulletAt(out, k + 4)
                /\ NumVariantBullets(out) = 1
                /\ SubSeq(out, ItemClose(out, k + 4) + 1, Len(out))
                     = SubSeq(in, k + 1, Len(in))

\* an insertion into a document that has a second list
C6_Witness ==
  /\ Returned
  /\ Meaningful(formattedVariants)
  /\ NumVariantBullets(original.v) = 0
  /\ FirstIndexOf(original.v, UL) # 0
  /\ FirstIndexOf(original.v, UL) # LastIndexOf(original.v, UL)
  /\ NumVariantBullets(htmlDescription.v) = 1

(***************************************************************************)
(* C7: the patcher never raises.  A null document, a summary that is not a *)
(* string, a document without a list when a bullet is to be inserted: the  *)
(* call returns the document it was given.                                 *)
(***************************************************************************)
C7_NeverRaises ==
  /\ outcome # "raised"
  /\ outcome = "returned" =>
       /\ original.t # "str" => htmlDescription = original
       /\ (formattedVariants.t = "num" /\ Truthy(formattedVariants))
            => htmlDescription = original
       /\ (original.t = "str" /\ Meaningful(formattedVariants)
             /\ ~Includes(original.v, LBL) /\ ~Includes(original.v, UL))
            => htmlDescription = original

\* a call on a string document with a number for a summary has returned
C7_Witness ==
  /\ outcome = "returned"
  /\ original.t = "str"
  /\ formattedVariants = Num("5")
  /\ NumVariantBullets(original.v) = 2

(***************************************************************************)
(* What the comparator claims speak of.                                    *)
(***************************************************************************)
Compared == outcome = "returned" /\ changeResult # NoResult

oldVs == OrEmpty(oldProduct.variants)

newVs == OrEmpty(newProduct.variants)

oldOs == OrEmpty(oldProduct.options)

newOs == OrEmpty(newProduct.options)

\* the two snapshots agree position by position in option names, value
\* lists, slots and titles
PositionwiseEqual ==
  /\ Len(oldVs) = Len(newVs)
  /\ Len(oldOs) = Len(newOs)
  /\ \A i \in 1..Len(oldOs) :
       /\ oldOs[i].name = newOs[i].name
       /\ OrEmpty(oldOs[i].values) = OrEmpty(newOs[i].values)
  /\ \A i \in 1..Len(oldVs) :
       /\ oldVs[i].title = newVs[i].title
       /\ oldVs[i].option1 = newVs[i].option1
       /\ oldVs[i].option2 = newVs[i].option2
       /\ oldVs[i].option3 = newVs[i].option3

(***************************************************************************)
(* C8: a snapshot compared with itself, or with a snapshot that agrees     *)
(* with it position by position, yields hasChanges = false.                *)
(***************************************************************************)
C8_NoChangeFixedPoint ==
  (Compared /\ WellFormed(oldProduct) /\ WellFormed(newProduct) /\ PositionwiseEqual)
    => /\ changeResult.hasChanges = FALSE
       /\ changeResult = NoChange

\* a snapshot with two variants and two options compared with itself
C8_Witness ==
  /\ Compared
  /\ oldProduct = newProduct
  /\ WellFormed(oldProduct)
  /\ Len(oldVs) = 2
  /\ Len(oldOs) = 2

(***************************************************************************)
(* C9: the comparator never raises.  A null snapshot gives hasChanges =    *)
(* true with changeType "error"; so does a null option or variant element  *)
(* that the comparison reaches; well-formed snapshots never give "error".  *)
(***************************************************************************)
IsError(r) == r.hasChanges = TRUE /\ r.changeType = "error"

C9_FailsOpen ==
  /\ outcome # "raised"
  /\ Compared =>
       /\ (oldProduct.nul \/ newProduct.nul) => IsError(changeResult)
       /\ (~WellFormed(oldProduct) \/ ~WellFormed(newProduct))
            => changeResult.hasChanges = TRUE
       /\ (oldProduct = newProduct /\ ~WellFormed(oldProduct))
            => IsError(changeResult)
       /\ (WellFormed(oldProduct) /\ WellFormed(newProduct))
            => ~IsError(changeResult)

\* two snapshots that are objects, one with a null variant element, reported
\* as an error
C9_Witness ==
  /\ Compared
  /\ ~oldProduct.nul
  /\ ~newProduct.nul
  /\ \E i \in 1..Len(oldVs) : oldVs[i].nul
  /\ WellFormed(newProduct)
  /\ IsError(changeResult)

(***************************************************************************)
(* C10: the count checks come first.  Different variant counts give        *)
(* variant_count whatever else differs; equal variant counts and different *)
(* option counts give option_count whatever else differs.                  *)
(***************************************************************************)
C10_CountChecksFirst ==
  (Compared /\ ~oldProduct.nul /\ ~newProduct.nul) =>
    /\ Len(oldVs) # Len(newVs) =>
         /\ changeResult.hasChanges = TRUE
         /\ changeResult.changeType = "variant_count"
         /\ changeResult.oldCount = Len(oldVs)
         /\ changeResult.newCount = Len(newVs)
    /\ (Len(oldVs) = Len(newVs) /\ Len(oldOs) # Len(newOs)) =>
         /\ changeResult.hasChanges = TRUE
         /\ changeResult.changeType = "option_count"
         /\ changeResult.oldCount = Len(oldOs)
         /\ changeResult.newCount = Len(newOs)

\* both counts differ, and so do the first option's name and the first
\* variant's slots: variant_count is reported
C10_Witness ==
  /\ Compared
  /\ ~oldProduct.nul
  /\ ~newProduct.nul
  /\ Len(oldVs) = 1
  /\ Len(newVs) = 2
  /\ Len(oldOs) = 2
  /\ Len(newOs) = 1
  /\ ~newOs[1].nul
  /\ ~oldOs[1].nul
  /\ oldOs[1].name # newOs[1].name
  /\ changeResult.changeType = "variant_count"

(***************************************************************************)
(* The comparator past its count checks: two well-formed snapshots with as *)
(* many variants and as many options on both sides.                        *)
(***************************************************************************)
Comparable ==
  /\ Compared
  /\ WellFormed(oldProduct)
  /\ WellFormed(newProduct)
  /\ Len(oldVs) = Len(newVs)
  /\ Len(oldOs) = Len(newOs)

NameDiffers(i) == oldOs[i].name # newOs[i].name

ValuesDiffer(i) == OrEmpty(oldOs[i].values) # OrEmpty(newOs[i].values)

\* the least position of 1..n where D holds, 0 when there is none
First(n, D(_)) ==
  IF \E i \in 1..n : D(i)
    THEN CHOOSE i \in 1..n : D(i) /\ \A m \in 1..(i - 1) : ~D(m)
    ELSE 0

FirstNameDiff == First(Len(oldOs), NameDiffers)

FirstValuesDiff == First(Len(oldOs), ValuesDiffer)

OptionDiffers(i) == NameDiffers(i) \/ ValuesDiffer(i)

FirstOptionDiff == First(Len(oldOs), OptionDiffers)

IsOptionName(r, i) ==
  /\ r.hasChanges = TRUE
  /\ r.changeType = "option_name"
  /\ r.oldValue = oldOs[i].name
  /\ r.newValue = newOs[i].name

(***************************************************************************)
(* C11: with equal counts, an option name that differs at some position    *)
(* gives option_name (for the first such position): the names of all       *)
(* positions are checked before any value list, so a value difference in   *)
(* an earlier option does not pre-empt a name difference in a later one.   *)
(***************************************************************************)
C11_NamesBeforeAnyValues ==
  (Comparable /\ FirstNameDiff # 0) => IsOptionName(changeResult, FirstNameDiff)

\* C11 as amended: the options are walked once, name then value list at each
\* position.  option_name is reported exactly when the first option pair
\* that differs at all differs in its name; a value difference in an earlier
\* option pre-empts a name difference in a later one.
C11_NameAtFirstDifferingOption ==
  Comparable =>
    LET k == FirstOptionDiff
    IN  /\ (k # 0 /\ NameDiffers(k)) => IsOptionName(changeResult, k)
        /\ changeResult.changeType = "option_name" => (k # 0 /\ NameDiffers(k))
        /\ (k # 0 /\ ~NameDiffers(k)) =>
             changeResult.changeType \in {"option_values_count", "option_value"}

\* the second option differs in name and the first in its values: the value
\* difference is what is reported
C11_Witness ==
  /\ Comparable
  /\ Len(oldOs) = 2
  /\ FirstNameDiff = 2
  /\ FirstValuesDiff = 1
  /\ changeResult.changeType = "option_value"

(***************************************************************************)
(* C12: with equal counts and equal option names, the first option pair    *)
(* whose value lists differ gives option_values_count when the two lists   *)
(* differ in length, and otherwise option_value with the values of the     *)
(* first position where the lists differ.                                  *)
(***************************************************************************)
C12_ValueListDifference ==
  (Comparable /\ FirstNameDiff = 0 /\ FirstValuesDiff # 0) =>
    LET k == FirstValuesDiff
        oldValues == OrEmpty(oldOs[k].values)
        newValues == OrEmpty(newOs[k].values)
        j == First(Len(oldValues), LAMBDA m : oldValues[m] # newValues[m])
    IN  /\ changeResult.hasChanges = TRUE
        /\ changeResult.optionName = oldOs[k].name
        /\ IF Len(oldValues) # Len(newValues)
             THEN /\ changeResult.changeType = "option_values_count"
                  /\ changeResult.oldCount = Len(oldValues)
                  /\ changeResult.newCount = Len(newValues)
             ELSE /\ changeResult.changeType = "option_value"
                  /\ changeResult.oldValue = oldValues[j]
                  /\ changeResult.newValue = newValues[j]

\* two value lists of the same length that differ in both positions
C12_Witness ==
  /\ Comparable
  /\ FirstNameDiff = 0
  /\ FirstValuesDiff # 0
  /\ Len(OrEmpty(oldOs[FirstValuesDiff].values)) = 2
  /\ Len(OrEmpty(newOs[FirstValuesDiff].values)) = 2
  /\ \A m \in 1..2 : OrEmpty(oldOs[FirstValuesDiff].values)[m]
                         # OrEmpty(newOs[FirstValuesDiff].values)[m]
  /\ changeResult.changeType = "option_value"

SlotsDiffer(i) ==
  \/ oldVs[i].option1 # newVs[i].option1
  \/ oldVs[i].option2 # newVs[i].option2
  \/ oldVs[i].option3 # newVs[i].option3

TitleDiffers(i) == oldVs[i].title # newVs[i].title

VariantDiffers(i) == SlotsDiffer(i) \/ TitleDiffers(i)

FirstVariantDiff == First(Len(oldVs), VariantDiffers)

(***************************************************************************)
(* C13: with equal counts and equal option definitions the variants are    *)
(* walked by position; the first variant pair that differs gives           *)
(* variant_options when one of its three slots differs, and variant_title  *)
(* only when its slots are equal and its titles differ.                    *)
(***************************************************************************)
C13_VariantWalk ==
  (Comparable /\ FirstOptionDiff = 0 /\ FirstVariantDiff # 0) =>
    LET k == FirstVariantDiff
    IN  /\ changeResult.hasChanges = TRUE
        /\ changeResult.variantIndex = k - 1
        /\ IF SlotsDiffer(k)
             THEN /\ changeResult.changeType = "variant_options"
                  /\ changeResult.oldVariant = oldVs[k].title
                  /\ changeResult.newVariant = newVs[k].title
             ELSE /\ changeResult.changeType = "variant_title"
                  /\ changeResult.oldValue = oldVs[k].title
                  /\ changeResult.newValue = newVs[k].title

\* the second variant pair differs in slots and title (the first pair is
\* equal): variant_options is reported for it
C13_Witness ==
  /\ Comparable
  /\ FirstOptionDiff = 0
  /\ Len(oldOs) = 2
  /\ FirstVariantDiff = 2
  /\ SlotsDiffer(2)
  /\ TitleDiffers(2)
  /\ changeResult.changeType = "variant_options"

(***************************************************************************)
(* C14: hasChanges is the same in both directions.  For every pair of      *)
(* snapshots, malformed ones included, comparing new with old gives the    *)
(* hasChanges that comparing old with new gave.                            *)
(***************************************************************************)
C14_HasChangesSymmetric ==
  Compared =>
    detectVariantChanges(newProduct, oldProduct).result.hasChanges
      = changeResult.hasChanges

\* a well-formed old snapshot against a new one with a null variant element,
\* the counts being equal: an error one way, an error the other way
C14_Witness ==
  /\ Compared
  /\ WellFormed(oldProduct)
  /\ ~newProduct.nul
  /\ Len(oldVs) = 2
  /\ Len(newVs) = 2
  /\ Len(oldOs) = Len(newOs)
  /\ newVs[2].nul
  /\ changeResult.hasChanges = TRUE
  /\ detectVariantChanges(newProduct, oldProduct).result.changeType = "error"

(***************************************************************************)
(* What the formatter claims speak of: the product formatted and the text  *)
(* returned, cut at its separators.                                        *)
(***************************************************************************)
Formatted == outcome = "formatted"

fmtVs == OrEmpty(newProduct.variants)

fmtOs == OrEmpty(newProduct.options)

\* no variant and no option of the product is a null element
FormatWellFormed ==
  /\ \A i \in 1..Len(fmtVs) : ~fmtVs[i].nul
  /\ \A k \in 1..Len(fmtOs) : ~fmtOs[k].nul

\* slot k of a variant, k counted from 1 as the options are
SlotOf(v, k) ==
  CASE k = 1 -> v.option1
    [] k = 2 -> v.option2
    [] k = 3 -> v.option3
    [] OTHER -> UNDEF

\* the slot is neither absent nor empty
HasValue(v, k) == SlotOf(v, k) \notin {UNDEF, NULL, ""}

RECURSIVE Split(_, _)
\* the pieces of a text between the occurrences of a separator
Split(text, sep) ==
  IF \E i \in 1..Len(text) : text[i] = sep
    THEN LET i == CHOOSE i \in 1..Len(text) :
                    text[i] = sep /\ \A m \in 1..(i - 1) : text[m] # sep
         IN  <<SubSeq(text, 1, i - 1)>> \o Split(SubSeq(text, i + 1, Len(text)), sep)
    ELSE <<text>>

\* the positions of the options a variant has a value for, in order
RenderedOptions(v) ==
  SelectSeq([k \in 1..Len(fmtOs) |-> k], LAMBDA k : HasValue(v, k))

(***************************************************************************)
(* C15: an empty variant list (or none at all) is formatted as "Standard", *)
(* whatever the option definitions are.                                    *)
(***************************************************************************)
C15_EmptyIsStandard ==
  (Formatted /\ Len(fmtVs) = 0) => formattedVariants = Str(<<"Standard">>)

\* an empty variant list formatted under two option definitions
C15_Witness ==
  /\ Formatted
  /\ newProduct.variants = Arr(<<>>)
  /\ Len(fmtOs) = 2
  /\ FormatWellFormed

C17_FormatNeverRaises ==
  /\ outcome # "raised"
  /\ Formatted =>
       /\ formattedVariants.t = "str"
       /\ formattedVariants.v # <<>>
       /\ (Len(fmtVs) > 0 /\ ~FormatWellFormed)
            => formattedVariants = Str(<<"Standard">>)

\* a variant list with a null element has been formatted
C17_Witness ==
  /\ Formatted
  /\ Len(fmtVs) = 2
  /\ fmtVs[2].nul
  /\ \A k \in 1..Len(fmtOs) : ~fmtOs[k].nul
  /\ formattedVariants = Str(<<"Standard">>)

RECURSIVE Distinct(_)
\* a sequence without the repetitions of its elements, first occurrences kept
Distinct(q) ==
  IF q = <<>> THEN <<>>
  ELSE LET front == Distinct(SubSeq(q, 1, Len(q) - 1))
           last == q[Len(q)]
       IN  IF \E i \in 1..Len(front) : front[i] = last THEN front
           ELSE Append(front, last)

\* the grouped rendering: per option its name and the distinct values of its
\* slot over all variants
Grouped ==
  Join([k \in 1..Len(fmtOs) |->
          <<fmtOs[k].name, ": ">>
            \o Join([n \in 1..Len(Distinct([i \in 1..Len(fmtVs) |-> SlotOf(fmtVs[i], k)]))
                       |-> <<Distinct([i \in 1..Len(fmtVs) |-> SlotOf(fmtVs[i], k)])[n]>>],
                    <<", ">>)],
       <<"; ">>)

(***************************************************************************)
(* C18: the summary is grouped by option.  For variants that have a value  *)
(* for every option, the text is, per option in definition order, the      *)
(* option name and the distinct values of that option over all variants    *)
(* joined by ", ", the options joined by "; ".                             *)
(***************************************************************************)
C18_GroupedByOption ==
  (/\ Formatted
   /\ FormatWellFormed
   /\ Len(fmtVs) > 0
   /\ Len(fmtOs) \in 1..3
   /\ \A i \in 1..Len(fmtVs) : \A k \in 1..Len(fmtOs) : HasValue(fmtVs[i], k))
    => formattedVariants = Str(Grouped)

(***************************************************************************)
(* C19: "Default Title" is never shown.  A product whose only variant is   *)
(* "Default Title" keeps its description as it was when the bullet is      *)
(* added, and no summary holds the value "Default Title".                  *)
(***************************************************************************)
C19_DefaultTitleNeverShown ==
  /\ (outcome = "added" /\ ~newProduct.nul /\ fmtVs = <<fDT>>)
       => htmlDescription = original
  /\ (Formatted /\ formattedVariants.t = "str")
       => ~Includes(formattedVariants.v, "Default Title")

(***************************************************************************)
(* C20: updateVariantsInDescription writes to the store only what differs  *)
(* from what it fetched: a call of product.update carries a description    *)
(* other than the one fetched, and a product skipped for lack of a         *)
(* generated description is not written.                                   *)
(***************************************************************************)
C20_WritesOnlyWhenChanged ==
  [][/\ storeUpdates' # storeUpdates
          => storeUpdates'[Len(storeUpdates')] # htmlDescription
     /\ outcome' = "skipped" => storeUpdates' = storeUpdates]_vars

(***************************************************************************)
(* The variant bullets of a document in their order, and the two forms of  *)
(* their opening: the label directly after <li>, or after whitespace.      *)
(***************************************************************************)
RECURSIVE BulletStartsFrom(_, _)
BulletStartsFrom(d, i) ==
  IF i > Len(d) THEN <<>>
  ELSE IF IsVariantBulletAt(d, i)
    THEN <<i>> \o BulletStartsFrom(d, ItemClose(d, SkipWs(d, i + 1)) + 1)
    ELSE BulletStartsFrom(d, i + 1)

BulletStarts(d) == BulletStartsFrom(d, 1)

\* the whole list item of the bullet at i, from <li> to </li>
BulletItem(d, i) == SubSeq(d, i, ItemClose(d, SkipWs(d, i + 1)))

\* the label follows <li> directly
DirectForm(d, i) == d[i + 1] = LBL

\* whitespace or a line break stands between <li> and the label
SeparatedForm(d, i) == IsWs(d[i + 1])

\* the text of the bullet holds no line break
OneLine(d, i) == ~Includes(BulletText(d, i), NL)

(***************************************************************************)
(* C23: a variant bullet whose text stands on one line is recognised in    *)
(* both forms of its opening, the label directly after <li> or after       *)
(* whitespace or a line break: a variant summary S replaces each such      *)
(* bullet, in its place, by the bullet reading S, and "Standard" (or an    *)
(* empty or blank summary) removes each of them.                           *)
(***************************************************************************)
C23_BothOpeningFormsRecognised ==
  Returned =>
    LET in == original.v
        out == htmlDescription.v
        bi == BulletStarts(in)
        bo == BulletStarts(out)
    IN  /\ (Meaningful(formattedVariants) /\ bi # <<>>) =>
             /\ Len(bo) = Len(bi)
             /\ \A k \in 1..Len(bi) :
                  (OneLine(in, bi[k])
                     /\ (DirectForm(in, bi[k]) \/ SeparatedForm(in, bi[k])))
                    => BulletItem(out, bo[k])
                         = newVariantsBullet(formattedVariants.v)
        /\ NoVariants(formattedVariants) =>
             Len(bo) = Cardinality({k \in 1..Len(bi) : ~OneLine(in, bi[k])})

\* a document holding a bullet of each form, both replaced by the new bullet
C23_Witness ==
  /\ Returned
  /\ Meaningful(formattedVariants)
  /\ LET in == original.v
         out == htmlDescription.v
         bi == BulletStarts(in)
         bo == BulletStarts(out)
     IN  /\ \E k \in 1..Len(bi) : DirectForm(in, bi[k]) /\ OneLine(in, bi[k])
         /\ \E k \in 1..Len(bi) : SeparatedForm(in, bi[k]) /\ OneLine(in, bi[k])
         /\ \A k \in 1..Len(bo) :
              BulletItem(out, bo[k]) = newVariantsBullet(formattedVariants.v)
         /\ out # in

(***************************************************************************)
(* The patcher started on a description as addVariantsBulletPoint leaves   *)
(* it: a document with no or one "Available Variants" bullet.              *)
(***************************************************************************)
SingleBulletDocuments ==
  {d \in Documents : d.t = "str" /\ NumVariantBullets(d.v) <= 1}

InitPatchSingle ==
  /\ htmlDescription \in SingleBulletDocuments
  /\ original = htmlDescription
  /\ formattedVariants = NullVal
  /\ outcome = "idle"
  /\ oldProduct = NullProduct
  /\ newProduct = NullProduct
  /\ changeResult = NoResult
  /\ storeUpdates = <<>>
  /\ FlowAtRest

SpecPatchSingle == InitPatchSingle /\ [][NextPatch]_vars

(***************************************************************************)
(* C26: from a document with at most one "Available Variants" bullet, any  *)
(* sequence of updateVariantsBulletPoint calls, whatever the summaries,    *)
(* leaves a document with at most one such bullet.                         *)
(***************************************************************************)
C26_NeverMoreThanOneBullet ==
  htmlDescription.t = "str" => NumVariantBullets(htmlDescription.v) <= 1

\* a later call of the sequence: the bullet written by an earlier call (its
\* text is not one a stored description starts with) is replaced by another
C26_Witness ==
  /\ Returned
  /\ Meaningful(formattedVariants)
  /\ NumVariantBullets(original.v) = 1
  /\ \E i \in 1..Len(original.v) :
       IsVariantBulletAt(original.v, i)
         /\ BulletText(original.v, i) = <<SP, "Size: C">>
  /\ NumVariantBullets(htmlDescription.v) = 1
  /\ htmlDescription # original

(***************************************************************************)
(* Insertion followed by removal.                                          *)
(***************************************************************************)
\* updateVariantsBulletPoint(updateVariantsBulletPoint(html, S), "Standard")
RoundTrip(html, S) ==
  updateVariantsBulletPoint(updateVariantsBulletPoint(html, S).value,
                            Str(<<"Standard">>)).value

\* a document with an unordered list and no "Available Variants" bullet
ListWithoutBullet(html) ==
  html.t = "str" /\ Includes(html.v, UL) /\ ~Includes(html.v, LBL)

MeaningfulSummaries == {S \in Summaries : Meaningful(S)}

\* the document with the whitespace after its first <ul> replaced by a line
\* break and two spaces
IndentedAfterFirstUl(d) ==
  LET k == FirstIndexOf(d, UL)
  IN  SubSeq(d, 1, k) \o <<NL, SP, SP>> \o SubSeq(d, SkipWs(d, k + 1), Len(d))

NoValue(x) == x \in {UNDEF, NULL, ""}

\* the summary the formatter gives for a snapshot
SummaryOf(p) == formatVariantsForDescription(p.variants, p.options).value

\* the two snapshots agree in everything but slots beyond the number of
\* options and the way a slot without a value is written
SameUpToUnusedSlots ==
  /\ \A i \in 1..Len(oldOs) :
       /\ oldOs[i].name = newOs[i].name
       /\ OrEmpty(oldOs[i].values) = OrEmpty(newOs[i].values)
  /\ \A i \in 1..Len(oldVs) :
       /\ oldVs[i].title = newVs[i].title
       /\ \A k \in 1..Len(oldOs) :
            \/ SlotOf(oldVs[i], k) = SlotOf(newVs[i], k)
            \/ NoValue(SlotOf(oldVs[i], k)) /\ NoValue(SlotOf(newVs[i], k))

(***************************************************************************)
(* C24: slots beyond the number of options and slots without a value count *)
(* as "no value".  Two snapshots that differ only in such slots are        *)
(* reported with hasChanges = false, and the slots show in neither         *)
(* summary: both snapshots are formatted alike.                            *)
(***************************************************************************)
C24_UnusedSlotsAreNoValue ==
  (Comparable /\ SameUpToUnusedSlots) =>
    /\ changeResult.hasChanges = FALSE
    /\ SummaryOf(oldProduct) = SummaryOf(newProduct)

(***************************************************************************)
(* C25: the comparator misses no change the formatter would show.  For two *)
(* well-formed snapshots, hasChanges = false means that both snapshots     *)
(* have the same summary.                                                  *)
(***************************************************************************)
C25_NoChangeMeansSameSummary ==
  (Compared /\ WellFormed(oldProduct) /\ WellFormed(newProduct)
     /\ Len(oldOs) <= 3 /\ Len(newOs) <= 3
     /\ changeResult.hasChanges = FALSE)
    => SummaryOf(oldProduct) = SummaryOf(newProduct)

\* two snapshots that are not the same, found unchanged, with a summary
\* that names an option
C25_Witness ==
  /\ Compared
  /\ WellFormed(oldProduct)
  /\ WellFormed(newProduct)
  /\ oldProduct # newProduct
  /\ changeResult.hasChanges = FALSE
  /\ SummaryOf(oldProduct) = Str(<<"Size", ": ", "A">>)
  /\ SummaryOf(newProduct) = Str(<<"Size", ": ", "A">>)

(***************************************************************************)
(* What the server claims speak of.                                        *)
(***************************************************************************)
Slots == 1..MaxCalls

\* request c is at work: it has started and not yet returned
Active(c) == calls[c].pc \in {"getProduct", "generate", "persist"}

\* this step is the webhook route taking a webhook
Delivery == webhooks # <<>> /\ webhooks' = Tail(webhooks)

(***************************************************************************)
(* C22: a products/update webhook for a product that has a generated       *)
(* description and whose variants and options the update did not change    *)
(* is answered with action "skip" and starts no description update;        *)
(* "update_variants" is the action only when the comparator finds a change *)
(* between the variants and options before and after the update.           *)
(***************************************************************************)
C22_SkipWhenVariantsUnchanged ==
  [][Delivery =>
       LET w == Head(webhooks)
           action == handleProductUpdate(w.product)
           changed == detectVariantChanges(w.old, w.product.data).result.hasChanges
       IN  /\ (~LacksAIDescription(w.product.body) /\ ~changed)
                => /\ action = "skip"
                   /\ \A c \in Slots : calls'[c] # calls[c] => ~Active(c)'
           /\ action = "update_variants" => changed]_vars

(***************************************************************************)
(* C29: a description that passed validateDescription and was stored by    *)
(* generateProductDescription is recognised as generated afterwards: by    *)
(* hasAIGeneratedDescription, and by the test for the "Verified by" text   *)
(* in handleProductUpdate and updateVariantsInDescription.                 *)
(***************************************************************************)
C29_StoredDescriptionRecognised ==
  [][\A c \in Slots :
       (calls[c].op = "generateProductDescription" /\ calls[c].pc = "persist"
          /\ calls'[c].status = "success")
         => /\ validateDescription(store'.body)
            /\ hasAIGeneratedDescription(store'.body)
            /\ ~LacksAIDescription(store'.body)
            /\ handleProductUpdate(store') # "generate_description"]_vars

(***************************************************************************)
(* C28: a generateProductDescription call that registered its productId    *)
(* in processingQueue has removed the entry when it returns, be it with    *)
(* success, already_generated or error; a call answered with               *)
(* already_processing leaves the queue as it is, the entry of the product  *)
(* in it; and when no registered call is at work the queue is empty.       *)
(***************************************************************************)
C28_QueueEntryRemovedOnReturn ==
  [][/\ \A c \in Slots :
          (calls[c].registered /\ calls'[c].pc = "done")
            => /\ calls[c].productId \notin processingQueue'
               /\ calls'[c].status \in {"success", "already_generated", "error"}
     /\ \A c \in Slots :
          (calls'[c] # calls[c] /\ calls'[c].status = "already_processing")
            => /\ processingQueue' = processingQueue
               /\ calls'[c].productId \in processingQueue
     /\ (\A c \in Slots : ~calls'[c].registered) => processingQueue' = {}]_vars

\* both kinds of call have returned: one was answered already_processing
\* while the other, which had registered the product, went on to success
C28_Witness ==
  /\ \E c \in Slots : calls[c].status = "already_processing"
  /\ \E c \in Slots :
       calls[c].op = "generateProductDescription" /\ calls[c].status = "success"
  /\ \A c \in Slots : ~Active(c)
  /\ processingQueue = {}

(***************************************************************************)
(* C21: whatever the order of webhooks, operator requests and clear-queue  *)
(* calls, at most one update of a product is in flight at any time: no two *)
(* requests hold a snapshot of the same product that they have fetched (or *)
(* received) and not yet persisted.                                        *)
(***************************************************************************)
\* request c has its snapshot of the product and has not yet persisted
InFlight(c) == calls[c].pc \in {"generate", "persist"}

C21_OneUpdateInFlight ==
  \A p \in ProductIds :
    Cardinality({c \in Slots : InFlight(c) /\ calls[c].productId = p}) <= 1

\* nothing waits to be handled: no webhook on its way, no request at work
Quiescent == webhooks = <<>> /\ \A c \in Slots : ~Active(c)

(***************************************************************************)
(* C30: the webhook loop quiesces.  After one edit of the product the      *)
(* server writes to the store finitely many times: in the end a            *)
(* products/update webhook is handled without another update of the        *)
(* description, and nothing is left to handle.                             *)
(***************************************************************************)
C30_WebhookLoopQuiesces == <>[]Quiescent

====
